---- MODULE Spec2Model ----
(***************************************************************************)
(* Model of ssurgolib.featurequery.getMapunitFeaturesForBoundingBox: one   *)
(* call of the function, from the output-directory checks through the      *)
(* per-tile fetch / parse / attribute / join / write pipeline to the       *)
(* return of the filename list or the propagation of an exception.         *)
(*                                                                         *)
(* Units.  A coordinate is the record [u, eps] standing for the float      *)
(* u/8 + eps * 10^-13 degrees (u counts eighths of a degree).  Areas are   *)
(* counted in units of 10^7 square metres, so that the module constant     *)
(* 10000000000 of featurequery.py:50 is 1000 here.                         *)
(***************************************************************************)
EXTENDS Integers, Sequences, FiniteSets, TLC

\* ---------------------------------------------------------------- bounds
\* Largest side of a sampled bounding box, in eighths of a degree.
MaxSide == 3

\* Offset of a sampled minX beyond its eighth of a degree, in 10^-13 degrees.
EpsSample == 3

\* Largest number of files already in the output directory before the call.
MaxPre == 2

\* Largest number of reads that the response body of the DEM service fills.
MaxChunks == 3

\* Largest number of directories of the project that os.path.walk visits.
MaxDirs == 2

\* Largest number of names in one directory of the project.
MaxNames == 2

\* --------------------------------------------------- module-level constants
\* featurequery.py:50, in units of 10^7 sq. meters
MAX_SSURGO_EXTENT_0 == 1000

\* featurequery.py:51 (Python 2 integer division)
MAX_SSURGO_EXTENT == MAX_SSURGO_EXTENT_0 \div 10

\* Area of a cell of 1/8 degree by 1/8 degree near the equator, about
\* 13.9 km x 13.9 km = 1.93 * 10^8 sq. meters.
CellArea == 19

\* ------------------------------------------------------------ pure helpers
Coord(u, eps) == [u |-> u, eps |-> eps]

Box(minX, minY, maxX, maxY) ==
    [minX |-> minX, minY |-> minY, maxX |-> maxX, maxY |-> maxY]

\* spatialdatalib.utils.calculateBoundingBoxAreaSqMeters: the offsets eps
\* are far below the resolution of the area unit.
calculateBoundingBoxAreaSqMeters(b) ==
    CellArea * (b.maxX.u - b.minX.u) * (b.maxY.u - b.minY.u)

\* Smallest n such that an n x n grid has cells of area at most maxArea.
GridSize(area, maxArea) ==
    CHOOSE n \in 1..area :
        /\ area <= n * n * maxArea
        /\ \A m \in 1..(n - 1) : area > m * m * maxArea

\* k-th grid line between lo and hi of an n-column grid; the outer lines are
\* the box's own coordinates.
GridLine(lo, hi, k, n) ==
    IF k = 0 THEN lo
    ELSE IF k = n THEN hi
    ELSE Coord(lo.u + (k * (hi.u - lo.u)) \div n, 0)

\* spatialdatalib.utils.tileBoundingBox: the box itself when it is small
\* enough, else the cells of the n x n grid, row by row.
tileBoundingBox(b, maxArea) ==
    LET area == calculateBoundingBoxAreaSqMeters(b)
    IN  IF area <= maxArea THEN << b >>
        ELSE LET n == GridSize(area, maxArea)
             IN  [k \in 1..(n * n) |->
                    LET col == (k - 1) % n
                        row == (k - 1) \div n
                    IN  Box(GridLine(b.minX, b.maxX, col, n),
                            GridLine(b.minY, b.maxY, row, n),
                            GridLine(b.minX, b.maxX, col + 1, n),
                            GridLine(b.minY, b.maxY, row + 1, n))]

\* Number of the 13 decimals that Python 2's str(float) ('%.12g': twelve
\* significant digits) drops for the value u/8 + eps * 10^-13.
DroppedDecimals(u) ==
    LET whole == u \div 8
    IN  IF whole >= 100 THEN 4
        ELSE IF whole >= 10 THEN 3
        ELSE IF whole >= 1 THEN 2
        ELSE IF u >= 1 THEN 1
        ELSE 0

Pow10(k) == IF k = 0 THEN 1 ELSE IF k = 1 THEN 10 ELSE IF k = 2 THEN 100
            ELSE IF k = 3 THEN 1000 ELSE 10000

\* str(x) of featurequery.py:98: the decimal string of x rounded to twelve
\* significant digits, named by the value it denotes.
PyStr(c) ==
    LET p == Pow10(DroppedDecimals(c.u))
    IN  Coord(c.u, ((2 * c.eps + p) \div (2 * p)) * p)

\* featurequery.py:97-98
bboxLabel(t) == << PyStr(t.minX), PyStr(t.minY), PyStr(t.maxX), PyStr(t.maxY) >>

\* featurequery.py:81-84
typeNameOf(ext) == IF ext THEN "MapunitPolyExtended" ELSE "MapunitPoly"

\* featurequery.py:100  "%s_bbox_%s-attr.gml"
gmlFilename(typeName, label) == [type |-> typeName, label |-> label, attr |-> TRUE]

\* Variant of intGmlFilename: the intermediate payload goes to the output name.
intGmlFilename_OutputName(typeName, label) ==
    [type |-> typeName, label |-> label, attr |-> TRUE]

\* featurequery.py:111  "%s_bbox_%s.gml"
intGmlFilename(typeName, label) == [type |-> typeName, label |-> label, attr |-> FALSE]

\* --------------------------------------------------------------- the state
VARIABLES
    outputDirState,  \* "notdir", "readonly" or "ok": what os.path.isdir / os.access see
    bbox,            \* argument bbox
    mapunitExtended, \* argument mapunitExtended
    tileBbox,        \* argument tileBbox
    fs0,             \* the output directory's files before the call: name -> content
    fs,              \* the output directory's files now
    pc,              \* the statement the call is at
    bboxes,          \* featurequery.py:87/92
    idx,             \* position of the for loop of line 96 in bboxes (1-based)
    gmlFiles,        \* featurequery.py:94
    error,           \* the exception that left the call, "none" while there is none
    tileState,       \* per tile: PENDING, SKIPPED, FETCHED, ..., WRITTEN
    log,             \* every step executed so far: [ev, tile, ok]
    run,             \* 1 in the first call, 2 in a repeated call after a failure
    failed,          \* the tile and step at which the first call failed
    other,           \* a second, concurrent call on the same output directory
    dem,             \* a call of wcs4demlib.demquery.getDEMForBoundingBox
    hs               \* a call of ecohydrolib.hydroshare.create_hydroshare_resource

vars == << outputDirState, bbox, mapunitExtended, tileBbox, fs0, fs, pc, bboxes,
           idx, gmlFiles, error, tileState, log, run, failed, other, dem, hs >>

\* What a step of one call of getMapunitFeaturesForBoundingBox never changes:
\* its arguments, the directory as it was, and the state of the other calls.
inputs == << outputDirState, bbox, mapunitExtended, tileBbox, fs0,
             run, failed, other, dem, hs >>

\* ------------------------------------------------------------ file contents
Old == [kind |-> "old", tile |-> 0]

Empty == [kind |-> "empty", tile |-> 0]

Partial(i) == [kind |-> "partial", tile |-> i]

Raw(i) == [kind |-> "raw", tile |-> i]

Joined(i) == [kind |-> "joined", tile |-> i]

\* open(path, 'w') / write: the file at name now holds content
Put(f, name, content) ==
    [n \in (DOMAIN f) \cup {name} |-> IF n = name THEN content ELSE f[n]]

\* os.unlink(path)
Remove(f, name) == [n \in (DOMAIN f) \ {name} |-> f[n]]

Ev(e, i, ok) == [ev |-> e, tile |-> i, ok |-> ok]

\* ------------------------------------------------------- sampled arguments
Boxes ==
    { Box(Coord(1, e), Coord(1, 0), Coord(1 + w, 0), Coord(1 + h, 0)) :
        e \in {0, EpsSample}, w \in 1..MaxSide, h \in 1..MaxSide }

\* The names the call can touch for box b: those of its tiles and of b itself.
RunNames(b, ext) ==
    LET ts == tileBoundingBox(b, MAX_SSURGO_EXTENT)
        labels == { bboxLabel(ts[k]) : k \in 1..Len(ts) } \cup { bboxLabel(b) }
    IN  { gmlFilename(typeNameOf(ext), l) : l \in labels }
        \cup { intGmlFilename(typeNameOf(ext), l) : l \in labels }

\* No failure of a first call is on record.
NoFailure == [tile |-> 0, step |-> "none"]

\* No second call is running.
OtherIdle ==
    [pc |-> "idle", idx |-> 1, gmlFiles |-> << >>, error |-> "none",
     found |-> << >>, steps |-> << >>]

\* No call of getDEMForBoundingBox is running.
DemIdle ==
    [pc |-> "idle", argsOK |-> TRUE, dir |-> "ok", overwrite |-> TRUE,
     file0 |-> [exists |-> FALSE, data |-> << >>],
     file |-> [exists |-> FALSE, data |-> << >>],
     status |-> 200, body |-> << >>, rest |-> << >>, data |-> << >>,
     requested |-> FALSE, isOpen |-> FALSE, fetchedData |-> FALSE,
     result |-> "none", error |-> "none"]

\* No call of create_hydroshare_resource is running.
HsIdle ==
    [pc |-> "idle", dirs |-> << >>, callback |-> "none", visited |-> 0,
     tempDir |-> FALSE, zip |-> "absent", entries |-> 0,
     uploading |-> FALSE, zipAtUpload |-> "none", result |-> "none",
     error |-> "none"]

Init ==
    /\ run = 1
    /\ failed = NoFailure
    /\ other = OtherIdle
    /\ dem = DemIdle
    /\ hs = HsIdle
    /\ outputDirState \in {"notdir", "readonly", "ok"}
    /\ bbox \in Boxes
    /\ mapunitExtended \in BOOLEAN
    /\ tileBbox \in BOOLEAN
    /\ fs0 \in { [n \in S |-> Old] :
                   S \in { T \in SUBSET RunNames(bbox, mapunitExtended) :
                             /\ Cardinality(T) <= MaxPre
                             /\ outputDirState = "notdir" => T = {} } }
    /\ fs = fs0
    /\ pc = "checkDir"
    /\ bboxes = << >>
    /\ idx = 1
    /\ gmlFiles = << >>
    /\ error = "none"
    /\ tileState = << >>
    /\ log = << >>

\* ------------------------------------------------------------- the program
typeName == typeNameOf(mapunitExtended)

gmlFilepath(i) == gmlFilename(typeName, bboxLabel(bboxes[i]))

intGmlFilepath(i) == intGmlFilename(typeName, bboxLabel(bboxes[i]))

\* Variant of DirError: the os.access test of line 77 is left out.
DirError_NoAccessTest(d) == IF d = "notdir" THEN "ENOTDIR" ELSE "none"

\* featurequery.py:75-78: the error the directory checks raise, "none" if none
DirError(d) ==
    IF d = "notdir" THEN "ENOTDIR"
    ELSE IF d = "readonly" THEN "EACCES"
    ELSE "none"

\* Variant of ExtentTooLarge: the comparison of line 90 is inverted.
ExtentTooLarge_Inverted(area) == area < MAX_SSURGO_EXTENT

\* featurequery.py:90
ExtentTooLarge(area) == area > MAX_SSURGO_EXTENT

\* Variant of LoopDone: the loop stops one tile early.
LoopDone_OneEarly(i, tiles) == i >= Len(tiles)

\* featurequery.py:96: the for loop is exhausted
LoopDone(i, tiles) == i > Len(tiles)

\* Variant of ShouldFetch: the existence test of line 103 is inverted.
ShouldFetch_IfExists(f, path) == path \in DOMAIN f

\* Variant of ShouldFetch: the existence test of line 103 is left out.
ShouldFetch_Always(f, path) == TRUE

\* featurequery.py:103
ShouldFetch(f, path) == path \notin DOMAIN f

\* Variant of StepAfter: the averaging of line 128 is left out.
StepAfter_NoAverage(step) ==
    CASE step = "connect"    -> "getfeature"
      [] step = "getfeature" -> "openInt"
      [] step = "openInt"    -> "writeInt"
      [] step = "writeInt"   -> "parse"
      [] step = "parse"      -> "attributes"
      [] step = "attributes" -> "join"
      [] step = "average"    -> "join"
      [] step = "join"       -> "openOut"
      [] step = "openOut"    -> "writeOut"
      [] step = "writeOut"   -> "unlink"
      [] step = "unlink"     -> "append"

\* Variant of StepAfter: the os.unlink of line 141 is left out.
StepAfter_NoUnlink(step) ==
    CASE step = "connect"    -> "getfeature"
      [] step = "getfeature" -> "openInt"
      [] step = "openInt"    -> "writeInt"
      [] step = "writeInt"   -> "parse"
      [] step = "parse"      -> "attributes"
      [] step = "attributes" -> "average"
      [] step = "average"    -> "join"
      [] step = "join"       -> "openOut"
      [] step = "openOut"    -> "writeOut"
      [] step = "writeOut"   -> "append"
      [] step = "unlink"     -> "append"

\* The statement that follows a statement of the loop body (lines 106-143).
StepAfter(step) ==
    CASE step = "connect"    -> "getfeature"
      [] step = "getfeature" -> "openInt"
      [] step = "openInt"    -> "writeInt"
      [] step = "writeInt"   -> "parse"
      [] step = "parse"      -> "attributes"
      [] step = "attributes" -> "average"
      [] step = "average"    -> "join"
      [] step = "join"       -> "openOut"
      [] step = "openOut"    -> "writeOut"
      [] step = "writeOut"   -> "unlink"
      [] step = "unlink"     -> "append"

\* Variant of AfterFailure: the exception is swallowed and the loop goes on
\* with the statement of line 143.
AfterFailure_Swallow(step) == "append"

\* Variant of AfterFailure: the failing statement is tried again.
AfterFailure_Retry(step) == step

\* Where control goes when a statement of the loop body raises: the function
\* has no try statement, the exception leaves the call.
AfterFailure(step) == "raised"

\* The open() and unlink() calls need write permission on the directory.
CanWrite == outputDirState = "ok"

\* pc, error and log after the statement step of tile idx ran.
Ran(step, ok) ==
    /\ log' = Append(log, Ev(step, idx, ok))
    /\ pc' = IF ok THEN StepAfter(step) ELSE AfterFailure(step)
    /\ error' = IF ok THEN error ELSE step

\* featurequery.py:75-79
CheckOutputDir ==
    /\ pc = "checkDir"
    /\ log' = Append(log, Ev("checkDir", 0, DirError(outputDirState) = "none"))
    /\ error' = DirError(outputDirState)
    /\ pc' = IF DirError(outputDirState) = "none" THEN "tile" ELSE "raised"
    /\ UNCHANGED << inputs, fs, bboxes, idx, gmlFiles, tileState >>

\* featurequery.py:86-94
TileOrCheckExtent ==
    /\ pc = "tile"
    /\ IF tileBbox
       THEN /\ bboxes' = tileBoundingBox(bbox, MAX_SSURGO_EXTENT)
            /\ log' = Append(log, Ev("tileBoundingBox", 0, TRUE))
            /\ pc' = "loop"
            /\ error' = error
       ELSE IF ExtentTooLarge(calculateBoundingBoxAreaSqMeters(bbox))
       THEN /\ bboxes' = bboxes
            /\ log' = Append(log, Ev("extent", 0, FALSE))
            /\ pc' = "raised"
            /\ error' = "ExtentTooLarge"
       ELSE /\ bboxes' = << bbox >>
            /\ log' = Append(log, Ev("extent", 0, TRUE))
            /\ pc' = "loop"
            /\ error' = error
    /\ tileState' = [k \in 1..Len(bboxes') |-> "PENDING"]
    /\ UNCHANGED << inputs, fs, idx, gmlFiles >>

\* featurequery.py:96-103: next tile, and the test whether its file exists
CheckExists ==
    /\ pc = "loop"
    /\ ~LoopDone(idx, bboxes)
    /\ IF ShouldFetch(fs, gmlFilepath(idx))
       THEN /\ pc' = "connect"
            /\ tileState' = tileState
       ELSE /\ pc' = "append"
            /\ tileState' = [tileState EXCEPT ![idx] = "SKIPPED"]
    /\ log' = Append(log, Ev("exists", idx, gmlFilepath(idx) \in DOMAIN fs))
    /\ UNCHANGED << inputs, fs, bboxes, idx, gmlFiles, error >>

\* featurequery.py:106
ConnectWFS ==
    /\ pc = "connect"
    /\ \E ok \in BOOLEAN : Ran("connect", ok)
    /\ UNCHANGED << inputs, fs, bboxes, idx, gmlFiles, tileState >>

\* featurequery.py:107-108
GetFeature ==
    /\ pc = "getfeature"
    /\ \E ok \in BOOLEAN : Ran("getfeature", ok)
    /\ UNCHANGED << inputs, fs, bboxes, idx, gmlFiles, tileState >>

\* featurequery.py:111-113
OpenIntermediate ==
    /\ pc = "openInt"
    /\ \E ok \in BOOLEAN :
        /\ ok => CanWrite
        /\ Ran("openInt", ok)
        /\ fs' = IF ok THEN Put(fs, intGmlFilepath(idx), Empty) ELSE fs
    /\ UNCHANGED << inputs, bboxes, idx, gmlFiles, tileState >>

\* featurequery.py:114-115; a failing read or write leaves what was flushed
WriteIntermediate ==
    /\ pc = "writeInt"
    /\ \E ok \in BOOLEAN :
        /\ Ran("writeInt", ok)
        /\ IF ok
           THEN /\ fs' = Put(fs, intGmlFilepath(idx), Raw(idx))
                /\ tileState' = [tileState EXCEPT ![idx] = "FETCHED"]
           ELSE /\ \E c \in {Empty, Partial(idx)} :
                      fs' = Put(fs, intGmlFilepath(idx), c)
                /\ tileState' = tileState
    /\ UNCHANGED << inputs, bboxes, idx, gmlFiles >>

\* featurequery.py:118-122
ParseMukeys ==
    /\ pc = "parse"
    /\ \E ok \in BOOLEAN :
        /\ ok => intGmlFilepath(idx) \in DOMAIN fs
        /\ Ran("parse", ok)
        /\ tileState' = IF ok THEN [tileState EXCEPT ![idx] = "KEYED"] ELSE tileState
    /\ UNCHANGED << inputs, fs, bboxes, idx, gmlFiles >>

\* featurequery.py:125
FetchAttributes ==
    /\ pc = "attributes"
    /\ \E ok \in BOOLEAN :
        /\ Ran("attributes", ok)
        /\ tileState' = IF ok THEN [tileState EXCEPT ![idx] = "ATTRIBUTED"] ELSE tileState
    /\ UNCHANGED << inputs, fs, bboxes, idx, gmlFiles >>

\* featurequery.py:128
ComputeAverages ==
    /\ pc = "average"
    /\ \E ok \in BOOLEAN :
        /\ Ran("average", ok)
        /\ tileState' = IF ok THEN [tileState EXCEPT ![idx] = "AGGREGATED"] ELSE tileState
    /\ UNCHANGED << inputs, fs, bboxes, idx, gmlFiles >>

\* featurequery.py:131-133
JoinAttributes ==
    /\ pc = "join"
    /\ \E ok \in BOOLEAN :
        /\ ok => intGmlFilepath(idx) \in DOMAIN fs
        /\ Ran("join", ok)
        /\ tileState' = IF ok THEN [tileState EXCEPT ![idx] = "JOINED"] ELSE tileState
    /\ UNCHANGED << inputs, fs, bboxes, idx, gmlFiles >>

\* featurequery.py:136
OpenOutput ==
    /\ pc = "openOut"
    /\ \E ok \in BOOLEAN :
        /\ ok => CanWrite
        /\ Ran("openOut", ok)
        /\ fs' = IF ok THEN Put(fs, gmlFilepath(idx), Empty) ELSE fs
    /\ UNCHANGED << inputs, bboxes, idx, gmlFiles, tileState >>

\* featurequery.py:137-138
WriteOutput ==
    /\ pc = "writeOut"
    /\ \E ok \in BOOLEAN :
        /\ Ran("writeOut", ok)
        /\ IF ok
           THEN /\ fs' = Put(fs, gmlFilepath(idx), Joined(idx))
                /\ tileState' = [tileState EXCEPT ![idx] = "WRITTEN"]
           ELSE /\ \E c \in {Empty, Partial(idx)} :
                      fs' = Put(fs, gmlFilepath(idx), c)
                /\ tileState' = tileState
    /\ UNCHANGED << inputs, bboxes, idx, gmlFiles >>

\* featurequery.py:141
UnlinkIntermediate ==
    /\ pc = "unlink"
    /\ \E ok \in BOOLEAN :
        /\ ok => (CanWrite /\ intGmlFilepath(idx) \in DOMAIN fs)
        /\ Ran("unlink", ok)
        /\ fs' = IF ok THEN Remove(fs, intGmlFilepath(idx)) ELSE fs
    /\ UNCHANGED << inputs, bboxes, idx, gmlFiles, tileState >>

\* featurequery.py:143
AppendFilename ==
    /\ pc = "append"
    /\ gmlFiles' = Append(gmlFiles, gmlFilename(typeName, bboxLabel(bboxes[idx])))
    /\ log' = Append(log, Ev("append", idx, TRUE))
    /\ idx' = idx + 1
    /\ pc' = "loop"
    /\ UNCHANGED << inputs, fs, bboxes, error, tileState >>

\* featurequery.py:147
Return ==
    /\ pc = "loop"
    /\ LoopDone(idx, bboxes)
    /\ pc' = "returned"
    /\ log' = Append(log, Ev("return", 0, TRUE))
    /\ UNCHANGED << inputs, fs, bboxes, idx, gmlFiles, error, tileState >>

Next ==
    \/ CheckOutputDir
    \/ TileOrCheckExtent
    \/ CheckExists
    \/ ConnectWFS
    \/ GetFeature
    \/ OpenIntermediate
    \/ WriteIntermediate
    \/ ParseMukeys
    \/ FetchAttributes
    \/ ComputeAverages
    \/ JoinAttributes
    \/ OpenOutput
    \/ WriteOutput
    \/ UnlinkIntermediate
    \/ AppendFilename
    \/ Return

Spec == Init /\ [][Next]_vars

\* ------------------------------------------------------------- type check
TypeOK ==
    /\ pc \in {"checkDir", "tile", "loop", "connect", "getfeature", "openInt",
               "writeInt", "parse", "attributes", "average", "join", "openOut",
               "writeOut", "unlink", "append", "returned", "raised"}
    /\ idx \in 1..(Len(bboxes) + 1)
    /\ Len(tileState) = Len(bboxes)
    /\ (pc = "raised") <=> (error # "none")

\* ------------------------------------------------- vocabulary of the claims
Tiles == 1..Len(bboxes)

NetworkSteps == {"connect", "getfeature", "attributes"}

FileSteps == {"openInt", "writeInt", "openOut", "writeOut", "unlink"}

PipelineSteps == {"connect", "getfeature", "openInt", "writeInt", "parse",
                  "attributes", "average", "join", "openOut", "writeOut", "unlink"}

\* positions of the log at which step e ran for tile i
Ran_at(e, i) == { k \in 1..Len(log) : log[k].ev = e /\ log[k].tile = i }

\* positions of the log at which a step raised ("exists" records a test, not a failure)
Failures == { k \in 1..Len(log) : ~log[k].ok /\ log[k].ev # "exists" }

\* the test of line 103 found tile i's output file
FoundOutput(i) == \E k \in Ran_at("exists", i) : log[k].ok

\* name n is as it was before the call
Untouched(n) ==
    /\ (n \in DOMAIN fs) <=> (n \in DOMAIN fs0)
    /\ n \in DOMAIN fs => fs[n] = fs0[n]

\* the filename line 100 derives from the type and the four coordinates of tile i
ExpectedName(i) ==
    [type  |-> IF mapunitExtended THEN "MapunitPolyExtended" ELSE "MapunitPoly",
     label |-> << PyStr(bboxes[i].minX), PyStr(bboxes[i].minY),
                  PyStr(bboxes[i].maxX), PyStr(bboxes[i].maxY) >>,
     attr  |-> TRUE]

Terminal(i) == tileState[i] \in {"SKIPPED", "WRITTEN"}

\* ------------------------------------------------------------------ C1
\* C1: a tile whose output file exists when the loop reaches it gets no
\* feature-service and no attribute-service request, no file of it is created,
\* changed or deleted, and its filename is still appended to the result.
C1_SkipDoesNothing ==
    \A i \in Tiles :
        FoundOutput(i) =>
            /\ \A e \in PipelineSteps : Ran_at(e, i) = {}
            /\ Untouched(ExpectedName(i))
            /\ Untouched([ExpectedName(i) EXCEPT !.attr = FALSE])
            /\ tileState[i] = "SKIPPED"
            /\ (idx > i \/ pc = "returned") =>
                  /\ Len(gmlFiles) >= i
                  /\ gmlFiles[i] = ExpectedName(i)

C1_Witness ==
    /\ pc = "returned"
    /\ \E i, j \in Tiles :
          /\ FoundOutput(i)
          /\ [ExpectedName(i) EXCEPT !.attr = FALSE] \in DOMAIN fs
          /\ tileState[j] = "WRITTEN"

\* ------------------------------------------------------------------ C2
\* C2: on normal return the list has one entry per tile, in tile order, the
\* i-th being the name derived from the type and the i-th tile's coordinates;
\* every tile is SKIPPED or WRITTEN and every named file exists.
C2_ReturnedListMatchesTiles ==
    pc = "returned" =>
        /\ bboxes = IF tileBbox THEN tileBoundingBox(bbox, MAX_SSURGO_EXTENT)
                    ELSE << bbox >>
        /\ Len(gmlFiles) = Len(bboxes)
        /\ \A i \in Tiles :
              /\ gmlFiles[i] = ExpectedName(i)
              /\ Terminal(i)
              /\ gmlFiles[i] \in DOMAIN fs

C2_Witness ==
    /\ pc = "returned"
    /\ Len(gmlFiles) = 4
    /\ \E i, j \in Tiles : tileState[i] = "SKIPPED" /\ tileState[j] = "WRITTEN"

\* ------------------------------------------------------------------ C3
\* C3 as stated: with tileBbox false and an area above the maximum extent the
\* call ends with the extent-too-large error, whatever the output directory.
C3_Original ==
    (~tileBbox /\ calculateBoundingBoxAreaSqMeters(bbox) > MAX_SSURGO_EXTENT
       /\ pc \in {"raised", "returned"})
        => error = "ExtentTooLarge"

\* C3 amended: once the output-directory checks have passed, with tileBbox
\* false an area above the maximum extent raises the extent-too-large error
\* before any request and any file change and no list is returned; an area not
\* above it never raises that error and the only tile is the input box.
C3_ExtentCheck ==
    (~tileBbox /\ pc \notin {"checkDir", "tile"} /\ outputDirState = "ok") =>
        IF calculateBoundingBoxAreaSqMeters(bbox) > MAX_SSURGO_EXTENT
        THEN /\ pc = "raised"
             /\ error = "ExtentTooLarge"
             /\ \A k \in 1..Len(log) : log[k].ev \notin NetworkSteps \cup FileSteps
             /\ fs = fs0
             /\ gmlFiles = << >>
        ELSE /\ error # "ExtentTooLarge"
             /\ bboxes = << bbox >>

C3_Witness ==
    /\ ~tileBbox
    /\ outputDirState = "ok"
    /\ error = "ExtentTooLarge"
    /\ fs0 # << >>

\* ------------------------------------------------------------------ C4
\* C4: when the output directory is not a directory or not writable the call
\* fails with the directory error as its first and only step: no tiling, no
\* extent check, no request, no file created, the directory unchanged.
C4_DirectoryCheckedFirst ==
    (outputDirState # "ok" /\ pc # "checkDir") =>
        /\ pc = "raised"
        /\ error = (IF outputDirState = "notdir" THEN "ENOTDIR" ELSE "EACCES")
        /\ Len(log) = 1
        /\ log[1].ev = "checkDir"
        /\ bboxes = << >>
        /\ gmlFiles = << >>
        /\ fs = fs0

C4_Witness ==
    /\ outputDirState = "readonly"
    /\ pc = "raised"
    /\ fs0 # << >>
    /\ tileBbox
    /\ calculateBoundingBoxAreaSqMeters(bbox) > MAX_SSURGO_EXTENT

\* ------------------------------------------------------------------ C5
\* C5: when a pipeline step of tile t raises, the output directory holds no
\* file that the call created for tile t, neither the output file nor the
\* intermediate file.
C5_FailureLeavesNoFileOfTile ==
    (pc = "raised" /\ error \in PipelineSteps) =>
        \A n \in {ExpectedName(idx), [ExpectedName(idx) EXCEPT !.attr = FALSE]} :
            n \in DOMAIN fs => n \in DOMAIN fs0

\* ------------------------------------------------------------------ C6
\* C6: once a tile is SKIPPED or WRITTEN, no later step of the call changes
\* or deletes its output file, also when a later tile's pipeline fails.
C6_TerminalOutputKept ==
    [][\A i \in Tiles :
          Terminal(i) =>
             /\ ExpectedName(i) \in DOMAIN fs
             /\ ExpectedName(i) \in DOMAIN fs'
             /\ fs'[ExpectedName(i)] = fs[ExpectedName(i)]]_vars

C6_Witness ==
    /\ pc = "raised"
    /\ error = "writeOut"
    /\ idx = 3
    /\ tileState[1] = "WRITTEN"
    /\ tileState[2] = "SKIPPED"
    /\ fs[ExpectedName(1)] = Joined(1)
    /\ fs[ExpectedName(2)] = Old

\* ------------------------------------------------------------------ C7
\* C7: the intermediate file of a tile is written before key extraction, it
\* is deleted only after the joined output file was written and closed, and
\* on normal return no intermediate file written by the call is left.
C7_IntermediateLifetime ==
    /\ \A i \in Tiles :
          /\ \A k \in Ran_at("parse", i) :
                \E j \in Ran_at("writeInt", i) : j < k /\ log[j].ok
          /\ \A k \in Ran_at("unlink", i) :
                \E j \in Ran_at("writeOut", i) : j < k /\ log[j].ok
    /\ pc \in {"parse", "attributes", "average", "join", "openOut", "writeOut", "unlink"} =>
          /\ [ExpectedName(idx) EXCEPT !.attr = FALSE] \in DOMAIN fs
          /\ fs[[ExpectedName(idx) EXCEPT !.attr = FALSE]] = Raw(idx)
    /\ pc = "returned" =>
          \A n \in DOMAIN fs : ~n.attr => (n \in DOMAIN fs0 /\ fs[n] = fs0[n])

C7_Witness ==
    /\ pc = "returned"
    /\ Len(bboxes) = 4
    /\ \A i \in Tiles : tileState[i] = "WRITTEN"
    /\ \E i \in Tiles : [ExpectedName(i) EXCEPT !.attr = FALSE] \in DOMAIN fs0

\* ------------------------------------------------------------------ C8
\* C8: in every state, an output file that exists and did not exist before
\* the call belongs to a tile whose pipeline is complete and holds the whole
\* joined payload; an empty or partial output file is never there.
C8_OutputFileAtomic ==
    \A i \in Tiles :
        (ExpectedName(i) \in DOMAIN fs /\ ExpectedName(i) \notin DOMAIN fs0) =>
            /\ fs[ExpectedName(i)] = Joined(i)
            /\ tileState[i] = "WRITTEN"

\* ------------------------------------------------------------------ C9
\* C9: a step that raises is the last step of the call: nothing runs after
\* it for this tile or a later one, the call raises, and a list is returned
\* only when no step raised, and then it covers every tile.
C9_ErrorAbortsAll ==
    /\ \A k \in Failures : k = Len(log)
    /\ Failures # {} <=> pc = "raised"
    /\ pc = "raised" => \A i \in Tiles : i > idx => tileState[i] = "PENDING"
    /\ pc = "returned" => Len(gmlFiles) = Len(bboxes)

C9_Witness ==
    /\ pc = "raised"
    /\ error = "attributes"
    /\ idx = 2
    /\ Len(bboxes) = 4
    /\ Len(gmlFiles) = 1

\* ------------------------------------------------------------------ C10
\* C10: in one call each tile gets at most one feature-service request and
\* at most one attribute fetch; a failed request is not issued again.
C10_NoRetry ==
    \A i \in Tiles :
        \A e \in NetworkSteps : Cardinality(Ran_at(e, i)) <= 1

C10_Witness ==
    /\ pc = "raised"
    /\ error = "getfeature"
    /\ idx = 2
    /\ Cardinality(Ran_at("getfeature", 1)) = 1
    /\ Cardinality(Ran_at("attributes", 1)) = 1
    /\ Cardinality(Ran_at("getfeature", 2)) = 1

\* ------------------------------------------------------------------ C12
\* The steps of the per-tile state machine.
TileTransitions ==
    { << "PENDING", "SKIPPED" >>, << "PENDING", "FETCHED" >>,
      << "FETCHED", "KEYED" >>, << "KEYED", "ATTRIBUTED" >>,
      << "ATTRIBUTED", "AGGREGATED" >>, << "AGGREGATED", "JOINED" >>,
      << "JOINED", "WRITTEN" >> }

\* C12: tiles are processed one after the other in tiler order: a tile
\* changes state only along PENDING -> SKIPPED or PENDING -> FETCHED -> KEYED
\* -> ATTRIBUTED -> AGGREGATED -> JOINED -> WRITTEN, it leaves PENDING only
\* when all tiles before it are SKIPPED or WRITTEN, and at most one tile is
\* neither PENDING nor terminal.
C12_SequentialTiles ==
    [][/\ \A i \in Tiles :
             /\ tileState'[i] # tileState[i] =>
                   << tileState[i], tileState'[i] >> \in TileTransitions
             /\ (tileState[i] = "PENDING" /\ tileState'[i] # "PENDING") =>
                   \A j \in 1..(i - 1) : Terminal(j)
       /\ Cardinality({ i \in 1..Len(tileState') :
                          tileState'[i] \notin {"PENDING", "SKIPPED", "WRITTEN"} }) <= 1
      ]_vars

C12_Witness ==
    /\ pc = "join"
    /\ Len(bboxes) = 4
    /\ tileState = << "WRITTEN", "SKIPPED", "AGGREGATED", "PENDING" >>

\* ------------------------------------------------------------------ C14
\* The tiles a call can be given or can make of a sampled box.
SampledTiles ==
    UNION { { b } \cup { tileBoundingBox(b, MAX_SSURGO_EXTENT)[k] :
                           k \in 1..Len(tileBoundingBox(b, MAX_SSURGO_EXTENT)) } :
            b \in Boxes }

\* C14: the output filename of a tile is a function of the feature type and
\* the four coordinates only, a tile that differs in a coordinate or a request
\* that differs in the feature type has another output filename, no
\* intermediate filename is an output filename, and so a tile is skipped only
\* because of a file of its own type and coordinates.
C14_NamesCollisionFree ==
    \A i \in Tiles :
        /\ gmlFilepath(i) = ExpectedName(i)
        /\ \A t \in SampledTiles : \A ext \in BOOLEAN :
              /\ gmlFilename(typeNameOf(ext), bboxLabel(t)) = gmlFilepath(i)
                    => (t = bboxes[i] /\ ext = mapunitExtended)
              /\ intGmlFilename(typeNameOf(ext), bboxLabel(t)) # gmlFilepath(i)
        /\ \A j \in Tiles :
              (j # i /\ FoundOutput(i) /\ tileState[j] = "WRITTEN")
                  => gmlFilepath(j) # gmlFilepath(i)

\* ------------------------------------------------------------------ C15
\* A first call on a one-tile and on a four-tile box, in a writable
\* directory that holds at most one file of an earlier call.
ResumeInit ==
    /\ Init
    /\ outputDirState = "ok"
    /\ tileBbox
    /\ ~mapunitExtended
    /\ bbox \in { Box(Coord(1, 0), Coord(1, 0), Coord(2, 0), Coord(2, 0)),
                  Box(Coord(1, 0), Coord(1, 0), Coord(1 + MaxSide, 0), Coord(1 + MaxSide, 0)) }
    /\ Cardinality(DOMAIN fs0) <= 1

\* The caller makes the same call again after a step of the loop body raised:
\* same arguments, the output directory as the first call left it.
CallAgain ==
    /\ pc = "raised"
    /\ error \in PipelineSteps
    /\ run = 1
    /\ run' = 2
    /\ failed' = [tile |-> idx, step |-> error]
    /\ fs0' = fs
    /\ pc' = "checkDir"
    /\ bboxes' = << >>
    /\ idx' = 1
    /\ gmlFiles' = << >>
    /\ error' = "none"
    /\ tileState' = << >>
    /\ log' = << >>
    /\ UNCHANGED << outputDirState, bbox, mapunitExtended, tileBbox, fs, other, dem, hs >>

ResumeNext ==
    \/ CallAgain
    \/ Next

ResumeSpec == ResumeInit /\ [][ResumeNext]_vars

\* C15: in the call repeated after a failure at tile k, exactly the tiles
\* whose output file exists are skipped (an intermediate file alone skips
\* nothing), tile k is fetched again, and on normal return no intermediate
\* file of a failed or repeated pipeline is left and the list names every
\* tile in order, as a first call without failure would.
C15_ResumeRefetches ==
    run = 2 =>
        /\ \A i \in Tiles :
              Ran_at("exists", i) # {} =>
                 /\ FoundOutput(i) <=> ExpectedName(i) \in DOMAIN fs0
                 /\ FoundOutput(i) <=> tileState[i] = "SKIPPED"
        /\ (pc = "returned" \/ idx > failed.tile) =>
              Ran_at("getfeature", failed.tile) # {}
        /\ pc = "returned" =>
              /\ \A n \in DOMAIN fs : ~n.attr => fs[n] = Old
              /\ Len(gmlFiles) = Len(bboxes)
              /\ \A i \in Tiles : gmlFiles[i] = ExpectedName(i)

\* ------------------------------------------------------------------ C13
\* A second call of getMapunitFeaturesForBoundingBox with the same arguments
\* runs at the same time on the same output directory; its local variables
\* are the fields of other, the directory fs is shared.

\* What a step of the second call never changes.
otherKeeps == << outputDirState, bbox, mapunitExtended, tileBbox, fs0, run, failed,
                 dem, hs, pc, bboxes, idx, gmlFiles, error, tileState, log >>

\* featurequery.py:86-92 in the second call
OtherTiles ==
    IF tileBbox THEN tileBoundingBox(bbox, MAX_SSURGO_EXTENT) ELSE << bbox >>

\* featurequery.py:100-101 and 111-112 in the second call
OtherPath(i, attr) ==
    IF attr THEN gmlFilename(typeName, bboxLabel(OtherTiles[i]))
    ELSE intGmlFilename(typeName, bboxLabel(OtherTiles[i]))

\* Whether statement step of tile i can succeed on directory f: lines 113,
\* 136 and 141 need write permission, lines 118, 131 and 141 need the
\* intermediate file to be there.
StepPossible(step, f, i) ==
    /\ step \in {"openInt", "openOut", "unlink"} => CanWrite
    /\ step \in {"parse", "join", "unlink"} => OtherPath(i, FALSE) \in DOMAIN f

\* The directories that statement step of tile i can leave behind.
StepEffects(step, ok, f, i) ==
    CASE step = "openInt"  -> IF ok THEN { Put(f, OtherPath(i, FALSE), Empty) } ELSE { f }
      [] step = "writeInt" -> IF ok THEN { Put(f, OtherPath(i, FALSE), Raw(i)) }
                              ELSE { Put(f, OtherPath(i, FALSE), c) : c \in {Empty, Partial(i)} }
      [] step = "openOut"  -> IF ok THEN { Put(f, OtherPath(i, TRUE), Empty) } ELSE { f }
      [] step = "writeOut" -> IF ok THEN { Put(f, OtherPath(i, TRUE), Joined(i)) }
                              ELSE { Put(f, OtherPath(i, TRUE), c) : c \in {Empty, Partial(i)} }
      [] step = "unlink"   -> IF ok THEN { Remove(f, OtherPath(i, FALSE)) } ELSE { f }
      [] OTHER             -> { f }

\* featurequery.py:75-79 in the second call
OtherCheckOutputDir ==
    /\ other.pc = "checkDir"
    /\ other' = IF DirError(outputDirState) = "none"
                THEN [other EXCEPT !.pc = "tile"]
                ELSE [other EXCEPT !.pc = "raised", !.error = DirError(outputDirState)]
    /\ UNCHANGED << otherKeeps, fs >>

\* featurequery.py:86-94 in the second call
OtherTileOrCheckExtent ==
    /\ other.pc = "tile"
    /\ other' = IF ~tileBbox /\ ExtentTooLarge(calculateBoundingBoxAreaSqMeters(bbox))
                THEN [other EXCEPT !.pc = "raised", !.error = "ExtentTooLarge"]
                ELSE [other EXCEPT !.pc = "loop",
                                   !.found = [k \in 1..Len(OtherTiles) |-> "unseen"]]
    /\ UNCHANGED << otherKeeps, fs >>

\* featurequery.py:96-103 in the second call
OtherCheckExists ==
    /\ other.pc = "loop"
    /\ ~LoopDone(other.idx, OtherTiles)
    /\ other' = [other EXCEPT
                   !.pc = IF ShouldFetch(fs, OtherPath(other.idx, TRUE))
                          THEN "connect" ELSE "append",
                   !.found[other.idx] = IF OtherPath(other.idx, TRUE) \in DOMAIN fs
                                        THEN "found" ELSE "absent"]
    /\ UNCHANGED << otherKeeps, fs >>

\* featurequery.py:106-141 in the second call: one statement of the loop body
OtherStep ==
    /\ other.pc \in PipelineSteps
    /\ \E ok \in BOOLEAN :
          /\ ok => StepPossible(other.pc, fs, other.idx)
          /\ fs' \in StepEffects(other.pc, ok, fs, other.idx)
          /\ other' = [other EXCEPT
                         !.pc = IF ok THEN StepAfter(other.pc) ELSE AfterFailure(other.pc),
                         !.error = IF ok THEN other.error ELSE other.pc,
                         !.steps = Append(other.steps, Ev(other.pc, other.idx, ok))]
    /\ UNCHANGED otherKeeps

\* featurequery.py:143 in the second call
OtherAppendFilename ==
    /\ other.pc = "append"
    /\ other' = [other EXCEPT !.gmlFiles = Append(other.gmlFiles, OtherPath(other.idx, TRUE)),
                              !.idx = other.idx + 1,
                              !.pc = "loop"]
    /\ UNCHANGED << otherKeeps, fs >>

\* featurequery.py:147 in the second call
OtherReturn ==
    /\ other.pc = "loop"
    /\ LoopDone(other.idx, OtherTiles)
    /\ other' = [other EXCEPT !.pc = "returned"]
    /\ UNCHANGED << otherKeeps, fs >>

\* One call alone, or two calls at once, tiling on, in a writable directory
\* that is empty or holds the output file of the first tile.
RaceInit ==
    /\ outputDirState = "ok"
    /\ tileBbox = TRUE
    /\ mapunitExtended = FALSE
    /\ bbox \in { Box(Coord(1, 0), Coord(1, 0), Coord(2, 0), Coord(2, 0)),
                  Box(Coord(1, 0), Coord(1, 0), Coord(1 + MaxSide, 0), Coord(1 + MaxSide, 0)) }
    /\ fs0 \in { << >>, [n \in {OtherPath(1, TRUE)} |-> Old] }
    /\ fs = fs0
    /\ pc = "checkDir"
    /\ bboxes = << >>
    /\ idx = 1
    /\ gmlFiles = << >>
    /\ error = "none"
    /\ tileState = << >>
    /\ log = << >>
    /\ run = 1
    /\ failed = NoFailure
    /\ other \in { OtherIdle, [OtherIdle EXCEPT !.pc = "checkDir"] }
    /\ dem = DemIdle
    /\ hs = HsIdle

RaceNext ==
    \/ Next
    \/ OtherCheckOutputDir
    \/ OtherTileOrCheckExtent
    \/ OtherCheckExists
    \/ OtherStep
    \/ OtherAppendFilename
    \/ OtherReturn

RaceSpec == RaceInit /\ [][RaceNext]_vars

\* positions of the second call's steps at which step e ran for tile i
OtherRan_at(e, i) ==
    { k \in 1..Len(other.steps) : other.steps[k].ev = e /\ other.steps[k].tile = i }

\* the steps that send a request or write a file of tile i
TileWork == {"getfeature", "attributes", "openInt", "writeInt", "openOut", "writeOut"}

\* C13: each call sends requests and writes files for a tile only after its
\* own existence test found the tile's output file absent, and writes the
\* tile's output file at most once; so an output file is written twice only
\* when two calls run on the directory and both found it absent, and both
\* calls then use the same intermediate and output file names.
C13_RaceNeedsTwoCalls ==
    /\ \A i \in Tiles :
          /\ Cardinality(Ran_at("openOut", i)) <= 1
          /\ Cardinality(Ran_at("writeOut", i)) <= 1
          /\ (\E e \in TileWork : Ran_at(e, i) # {}) => ~FoundOutput(i)
    /\ \A i \in 1..Len(other.found) :
          /\ Cardinality(OtherRan_at("openOut", i)) <= 1
          /\ Cardinality(OtherRan_at("writeOut", i)) <= 1
          /\ (\E e \in TileWork : OtherRan_at(e, i) # {}) => other.found[i] = "absent"
    /\ other.pc = "idle" =>
          \A n \in DOMAIN fs : (n.attr /\ n \in DOMAIN fs0) => fs[n] = fs0[n]
    /\ \A i \in Tiles :
          (i <= Len(other.found) /\ pc = "returned" /\ other.pc = "returned"
             /\ ~FoundOutput(i) /\ other.found[i] = "absent") =>
                /\ \E k \in Ran_at("writeOut", i) : log[k].ok
                /\ \E k \in OtherRan_at("writeOut", i) : other.steps[k].ok
                /\ OtherPath(i, TRUE) = gmlFilepath(i)
                /\ OtherPath(i, FALSE) = intGmlFilepath(i)

\* Both calls found the output file of tile 1 absent, both sent the feature
\* request, both wrote the same intermediate and output file.
C13_Witness ==
    /\ Len(bboxes) >= 1
    /\ Len(other.found) >= 1
    /\ ~FoundOutput(1)
    /\ Ran_at("exists", 1) # {}
    /\ other.found[1] = "absent"
    /\ \A e \in {"getfeature", "writeInt", "writeOut"} :
          /\ \E k \in Ran_at(e, 1) : log[k].ok
          /\ \E k \in OtherRan_at(e, 1) : other.steps[k].ok
    /\ OtherPath(1, TRUE) = gmlFilepath(1)
    /\ OtherPath(1, FALSE) = intGmlFilepath(1)

\* ======================================================================
\* wcs4demlib.demquery.getDEMForBoundingBox
\* ======================================================================
\* The variables of getMapunitFeaturesForBoundingBox, which the other
\* functions do not touch.
featureVars == << outputDirState, bbox, mapunitExtended, tileBbox, fs0, fs, pc,
                  bboxes, idx, gmlFiles, error, tileState, log, run, failed, other >>

\* No call of getMapunitFeaturesForBoundingBox is running.
FeatureIdle ==
    /\ outputDirState = "ok"
    /\ bbox = Box(Coord(1, 0), Coord(1, 0), Coord(2, 0), Coord(2, 0))
    /\ mapunitExtended = FALSE
    /\ tileBbox = FALSE
    /\ fs0 = << >>
    /\ fs = << >>
    /\ pc = "idle"
    /\ bboxes = << >>
    /\ idx = 1
    /\ gmlFiles = << >>
    /\ error = "none"
    /\ tileState = << >>
    /\ log = << >>
    /\ run = 1
    /\ failed = NoFailure
    /\ other = OtherIdle

\* The file at outDEMFilepath: absent, or holding the chunks data.
NoFile == [exists |-> FALSE, data |-> << >>]

\* A DEM file of an earlier call.
OldFile == [exists |-> TRUE, data |-> << 0 >>]

\* The response bodies: k reads of up to _BUFF_LEN bytes fill them.
Bodies == { [k \in 1..n |-> k] : n \in 0..MaxChunks }

DemInit ==
    /\ FeatureIdle
    /\ hs = HsIdle
    /\ dem \in { [DemIdle EXCEPT !.pc = "assert", !.argsOK = a, !.dir = d,
                                 !.overwrite = o, !.file0 = f, !.file = f,
                                 !.status = st, !.body = b, !.rest = b] :
                   a \in BOOLEAN, d \in {"notdir", "readonly", "ok"},
                   o \in BOOLEAN, f \in {NoFile, OldFile},
                   st \in {200, 404}, b \in Bodies }
    /\ dem.dir = "notdir" => dem.file0 = NoFile

\* The call ends with exception e.
DemRaise(e) == [dem EXCEPT !.pc = "raised", !.error = e]

\* demquery.py:75-78
DemDirError(d) ==
    IF d = "notdir" THEN "ENOTDIR"
    ELSE IF d = "readonly" THEN "EACCES"
    ELSE "none"

\* Variant of MustNotOverwrite: the overwrite argument is not looked at.
MustNotOverwrite_AnyFile(overwrite, exists) == exists

\* demquery.py:83
MustNotOverwrite(overwrite, exists) == ~overwrite /\ exists

\* Variant of HasData: the test of line 100 is left out.
HasData_Always(data) == TRUE

\* demquery.py:100, 103: a read at the end of the body returns the empty string
HasData(data) == data # << >>

\* res.read(_BUFF_LEN): the next chunk, the empty string at the end
ReadChunk(rest) == IF rest = << >> THEN << >> ELSE << Head(rest) >>

\* what is left of the body after res.read(_BUFF_LEN)
AfterRead(rest) == IF rest = << >> THEN << >> ELSE Tail(rest)

\* demquery.py:66-73
DemAssertArgs ==
    /\ dem.pc = "assert"
    /\ dem' = IF dem.argsOK
              THEN [dem EXCEPT !.pc = "checkDir", !.fetchedData = FALSE]
              ELSE DemRaise("AssertionError")
    /\ UNCHANGED << featureVars, hs >>

\* demquery.py:75-79
DemCheckOutputDir ==
    /\ dem.pc = "checkDir"
    /\ dem' = IF DemDirError(dem.dir) = "none"
              THEN [dem EXCEPT !.pc = "checkExists"]
              ELSE DemRaise(DemDirError(dem.dir))
    /\ UNCHANGED << featureVars, hs >>

\* demquery.py:81-84
DemCheckOverwrite ==
    /\ dem.pc = "checkExists"
    /\ dem' = IF MustNotOverwrite(dem.overwrite, dem.file.exists)
              THEN DemRaise("EEXIST")
              ELSE [dem EXCEPT !.pc = "request"]
    /\ UNCHANGED << featureVars, hs >>

\* demquery.py:86-93: the connection is opened by conn.request
DemRequest ==
    /\ dem.pc = "request"
    /\ \E ok \in BOOLEAN :
          dem' = IF ok
                 THEN [dem EXCEPT !.pc = "getresponse", !.requested = TRUE]
                 ELSE [DemRaise("http") EXCEPT !.requested = TRUE]
    /\ UNCHANGED << featureVars, hs >>

\* demquery.py:94-97
DemGetResponse ==
    /\ dem.pc = "getresponse"
    /\ \E ok \in BOOLEAN :
          dem' = IF ~ok THEN DemRaise("http")
                 ELSE IF dem.status # 200 THEN DemRaise("AssertionError")
                 ELSE [dem EXCEPT !.pc = "read"]
    /\ UNCHANGED << featureVars, hs >>

\* demquery.py:99-100
DemReadFirst ==
    /\ dem.pc = "read"
    /\ \E ok \in BOOLEAN :
          dem' = IF ~ok THEN DemRaise("http")
                 ELSE [dem EXCEPT !.data = ReadChunk(dem.rest),
                                  !.rest = AfterRead(dem.rest),
                                  !.pc = IF HasData(ReadChunk(dem.rest))
                                         THEN "open" ELSE "return"]
    /\ UNCHANGED << featureVars, hs >>

\* demquery.py:101-102: open(.., 'wb') creates or truncates the file
DemOpen ==
    /\ dem.pc = "open"
    /\ \E ok \in BOOLEAN :
          dem' = IF ~ok THEN DemRaise("io")
                 ELSE [dem EXCEPT !.file = [exists |-> TRUE, data |-> << >>],
                                  !.isOpen = TRUE, !.fetchedData = TRUE,
                                  !.pc = IF HasData(dem.data) THEN "write" ELSE "close"]
    /\ UNCHANGED << featureVars, hs >>

\* demquery.py:103-104
DemWrite ==
    /\ dem.pc = "write"
    /\ \E ok \in BOOLEAN :
          dem' = IF ~ok THEN DemRaise("io")
                 ELSE [dem EXCEPT !.file = [exists |-> TRUE,
                                            data |-> dem.file.data \o dem.data],
                                  !.pc = "readNext"]
    /\ UNCHANGED << featureVars, hs >>

\* demquery.py:105, 103
DemReadNext ==
    /\ dem.pc = "readNext"
    /\ \E ok \in BOOLEAN :
          dem' = IF ~ok THEN DemRaise("http")
                 ELSE [dem EXCEPT !.data = ReadChunk(dem.rest),
                                  !.rest = AfterRead(dem.rest),
                                  !.pc = IF HasData(ReadChunk(dem.rest))
                                         THEN "write" ELSE "close"]
    /\ UNCHANGED << featureVars, hs >>

\* demquery.py:106
DemClose ==
    /\ dem.pc = "close"
    /\ dem' = [dem EXCEPT !.isOpen = FALSE, !.pc = "return"]
    /\ UNCHANGED << featureVars, hs >>

\* demquery.py:108
DemReturn ==
    /\ dem.pc = "return"
    /\ dem' = [dem EXCEPT !.result = IF dem.fetchedData THEN "True" ELSE "False",
                          !.pc = "returned"]
    /\ UNCHANGED << featureVars, hs >>

DemNext ==
    \/ DemAssertArgs
    \/ DemCheckOutputDir
    \/ DemCheckOverwrite
    \/ DemRequest
    \/ DemGetResponse
    \/ DemReadFirst
    \/ DemOpen
    \/ DemWrite
    \/ DemReadNext
    \/ DemClose
    \/ DemReturn

DemSpec == DemInit /\ [][DemNext]_vars

\* ------------------------------------------------------------------ C11
\* C11 as stated: with overwrite False and the DEM file there, the call ends
\* with IOError EEXIST, whatever the arguments and the output directory.
C11_Original ==
    (~dem.overwrite /\ dem.file0.exists /\ dem.pc \in {"raised", "returned"})
        => dem.error = "EEXIST"

\* C11 amended: once the assertions and the output-directory checks have
\* passed, overwrite False with the DEM file there raises IOError EEXIST
\* before any HTTP connection is opened and leaves the file as it was; with
\* overwrite True the call never raises EEXIST.
C11_NoOverwrite ==
    /\ (dem.argsOK /\ dem.dir = "ok" /\ ~dem.overwrite /\ dem.file0.exists
          /\ dem.pc \notin {"idle", "assert", "checkDir", "checkExists"}) =>
            /\ dem.pc = "raised"
            /\ dem.error = "EEXIST"
            /\ ~dem.requested
            /\ dem.file = dem.file0
    /\ dem.overwrite => dem.error # "EEXIST"
    /\ dem.error = "EEXIST" => (~dem.requested /\ dem.file = dem.file0)

C11_Witness ==
    /\ dem.pc = "raised"
    /\ dem.error = "EEXIST"
    /\ dem.body # << >>

\* ------------------------------------------------------------------ C16
\* C16: the call returns True exactly when the response body is not empty,
\* and then the file holds the chunks in the order read and is closed; when
\* the first read returns no data it returns False and the file at the output
\* path is never created, truncated or changed, also with overwrite True and
\* the file there.
C16_ReturnValue ==
    /\ dem.pc = "returned" =>
          /\ dem.result = "True" <=> dem.body # << >>
          /\ dem.result = "True" =>
                /\ dem.file = [exists |-> TRUE, data |-> dem.body]
                /\ ~dem.isOpen
          /\ dem.result = "False" => dem.file = dem.file0
    /\ dem.body = << >> => (dem.file = dem.file0 /\ ~dem.isOpen)

C16_Witness ==
    /\ dem.pc = "returned"
    /\ dem.result = "False"
    /\ dem.overwrite
    /\ dem.file0.exists
    /\ dem.file = OldFile

\* ======================================================================
\* ecohydrolib.hydroshare.create_hydroshare_resource
\* ======================================================================
\* The project directory as os.path.walk sees it: the number of names of
\* each directory it visits.
Projects == UNION { [1..n -> 1..MaxNames] : n \in 0..MaxDirs }

HsInit ==
    /\ FeatureIdle
    /\ dem = DemIdle
    /\ hs \in { [HsIdle EXCEPT !.pc = "mkdtemp", !.dirs = d, !.callback = c] :
                  d \in Projects, c \in {"none", "given", "raises"} }

\* The call ends with exception e.
HsRaise(e) == [hs EXCEPT !.pc = "raised", !.error = e]

\* hydroshare.py:83-86
HsMkdtemp ==
    /\ hs.pc = "mkdtemp"
    /\ \E ok \in BOOLEAN :
          hs' = IF ok THEN [hs EXCEPT !.tempDir = TRUE, !.pc = "openZip"]
                ELSE HsRaise("mkdtemp")
    /\ UNCHANGED << featureVars, dem >>

\* hydroshare.py:89-91
HsOpenZip ==
    /\ hs.pc = "openZip"
    /\ \E ok \in BOOLEAN :
          hs' = IF ok THEN [hs EXCEPT !.zip = "open", !.pc = "walk"]
                ELSE HsRaise("ZipFile")
    /\ UNCHANGED << featureVars, dem >>

\* hydroshare.py:92 and 43-48: one call of _addToZip by os.path.walk; written
\* names are added before the one whose zfile.write raises
HsAddToZip ==
    /\ hs.pc = "walk"
    /\ hs.visited < Len(hs.dirs)
    /\ \E written \in 0..hs.dirs[hs.visited + 1] :
          hs' = IF written = hs.dirs[hs.visited + 1]
                THEN [hs EXCEPT !.entries = @ + written, !.visited = @ + 1]
                ELSE [HsRaise("zfile.write") EXCEPT !.entries = @ + written]
    /\ UNCHANGED << featureVars, dem >>

\* hydroshare.py:93
HsCloseZip ==
    /\ hs.pc = "walk"
    /\ hs.visited = Len(hs.dirs)
    /\ \E ok \in BOOLEAN :
          hs' = IF ok THEN [hs EXCEPT !.zip = "closed", !.pc = "callback"]
                ELSE HsRaise("zfile.close")
    /\ UNCHANGED << featureVars, dem >>

\* hydroshare.py:96-99
HsMakeCallback ==
    /\ hs.pc = "callback"
    /\ hs' = IF hs.callback = "raises" THEN HsRaise("create_callback")
             ELSE [hs EXCEPT !.pc = "upload"]
    /\ UNCHANGED << featureVars, dem >>

\* hydroshare.py:101-106
HsUpload ==
    /\ hs.pc = "upload"
    /\ \E ok \in BOOLEAN :
          hs' = IF ok
                THEN [hs EXCEPT !.uploading = TRUE, !.zipAtUpload = hs.zip,
                                !.result = "resource_id", !.pc = "rmtree"]
                ELSE [HsRaise("createResource") EXCEPT !.uploading = TRUE,
                                                       !.zipAtUpload = hs.zip]
    /\ UNCHANGED << featureVars, dem >>

\* hydroshare.py:108
HsRmtree ==
    /\ hs.pc = "rmtree"
    /\ \E ok \in BOOLEAN :
          hs' = IF ok THEN [hs EXCEPT !.tempDir = FALSE, !.zip = "absent", !.pc = "return"]
                ELSE HsRaise("rmtree")
    /\ UNCHANGED << featureVars, dem >>

\* hydroshare.py:110
HsReturn ==
    /\ hs.pc = "return"
    /\ hs' = [hs EXCEPT !.pc = "returned"]
    /\ UNCHANGED << featureVars, dem >>

HsNext ==
    \/ HsMkdtemp
    \/ HsOpenZip
    \/ HsAddToZip
    \/ HsCloseZip
    \/ HsMakeCallback
    \/ HsUpload
    \/ HsRmtree
    \/ HsReturn

HsSpec == HsInit /\ [][HsNext]_vars

\* ------------------------------------------------------------------ C17
\* C17: the zip archive is closed before the upload starts, and when the
\* call has ended, by returning the resource ID or by raising, the temporary
\* directory with the archive in it is gone.
C17_TempDirRemoved ==
    /\ hs.uploading => hs.zipAtUpload = "closed"
    /\ hs.pc \in {"returned", "raised"} => (~hs.tempDir /\ hs.zip = "absent")

====
